---- MODULE Spec2Model ----
(***************************************************************************)
(* Model of Ext.ux.grid.Printer (src/ux/grid/Printer.js): print(grid)      *)
(* normalises the grid's columns, builds the XTemplate markup and applies  *)
(* it to the store's records, then hands the html to the host window.      *)
(* The markup is kept structured: a document is a sequence of rows, a row  *)
(* a sequence of cells, a cell the attributes getHtml concatenates.        *)
(***************************************************************************)
EXTENDS Integers, Sequences, FiniteSets

VARIABLES pc, grid, columns, html, events, win, call, range

vars == <<pc, grid, columns, html, events, win, call, range>>

(***************************************************************************)
(* Bounds of the model.                                                    *)
(***************************************************************************)
MaxCols == 2
MaxRecs == 3
MaxPageSize == 2
MaxPage == 2

(***************************************************************************)
(* JavaScript values. t is the typeof tag; n/d the number (or the number a *)
(* text was made from); s the string; o the entries <<key, value>> of an   *)
(* object that maps group keys to values.                                  *)
(***************************************************************************)
Val(t, n, s, o) == [t |-> t, n |-> n, d |-> 1, s |-> s, o |-> o]
Undefined == Val("undefined", 0, "", {})
Null == Val("null", 0, "", {})
Num(n) == Val("number", n, "", {})
Str(s) == Val("string", 0, s, {})
Obj(o) == Val("object", 0, "", o)
Fn(s) == Val("function", 0, s, {})
Ratio(n, d) == [t |-> "number", n |-> n, d |-> d, s |-> "", o |-> {}]
Nbsp == Str("&nbsp;")

\* typeof value !== 'undefined'
IsDefined(v) == v.t # "undefined"
\* Ext.isObject: a plain object, not null, not an array
IsObject(v) == v.t = "object"
\* JavaScript truthiness
Truthy(v) ==
    CASE v.t = "undefined" -> FALSE
      [] v.t = "null" -> FALSE
      [] v.t = "number" -> v.n # 0
      [] v.t = "string" -> v.s # ""
      [] OTHER -> TRUE
\* Ext.isEmpty(value): null, undefined or a zero-length string
IsEmpty(v) == v.t \in {"undefined", "null"} \/ (v.t = "string" /\ v.s = "")
\* value == 0 with JavaScript's loose equality: the number 0, and the strings
\* that convert to 0; undefined, null and plain objects never equal 0
LooseEqZero(v) ==
    CASE v.t = "number" -> v.n = 0
      [] v.t = "string" -> v.s \in {"", "0"}
      [] OTHER -> FALSE
\* '...' + value + '...': the text string concatenation makes of a value
ToText(v) ==
    CASE v.t = "undefined" -> Str("undefined")
      [] v.t = "null" -> Str("null")
      [] v.t = "number" -> [t |-> "string", n |-> v.n, d |-> v.d, s |-> "#", o |-> {}]
      [] v.t = "object" -> Str("[object Object]")
      [] OTHER -> v

(***************************************************************************)
(* Sequences.                                                              *)
(***************************************************************************)
RECURSIVE SubSeqs(_, _)
\* the subsequences of s of length <= k (relative order kept)
SubSeqs(s, k) ==
    IF s = <<>> \/ k = 0 THEN {<<>>}
    ELSE SubSeqs(Tail(s), k)
         \cup {<<Head(s)>> \o t : t \in SubSeqs(Tail(s), k - 1)}

RECURSIVE SumSeq(_)
SumSeq(s) == IF s = <<>> THEN 0 ELSE Head(s) + SumSeq(Tail(s))

Min(S) == CHOOSE x \in S : \A y \in S : x <= y
Max(S) == CHOOSE x \in S : \A y \in S : x >= y

(***************************************************************************)
(* The records of the store: a Record is looked up by field name only.     *)
(* StoreOrder is the order the store keeps them in (sorted by the group    *)
(* field, as a grouped store sorts them).                                  *)
(***************************************************************************)
Rec(id, name, age, dept) == [id |-> id, name |-> name, age |-> age, dept |-> dept]

StoreOrder ==
    << Rec(1, Str("a"), Num(1), Str("eng")),
       Rec(2, Null, Num(-1), Str("eng")),
       Rec(3, Undefined, Num(2), Str("sales")),
       Rec(4, Str("b"), Num(0), Str("sales")) >>

RecordSeqs == SubSeqs(StoreOrder, MaxRecs)

\* record.get(fieldName)
Get(rcd, field) ==
    IF field.t # "string" THEN Undefined
    ELSE CASE field.s = "name" -> rcd.name
           [] field.s = "age" -> rcd.age
           [] field.s = "dept" -> rcd.dept
           [] OTHER -> Undefined

NoRecord == Rec(0, Undefined, Undefined, Undefined)

(***************************************************************************)
(* Columns. renderer and summaryRenderer name the function configured      *)
(* ("none" when absent); tpl says whether a template column has its tpl.   *)
(***************************************************************************)
Col(id, dataIndex, text, xtype, hidden, renderer, tpl, summaryType, summaryRenderer, align) ==
    [id |-> id, dataIndex |-> dataIndex, text |-> text, xtype |-> xtype,
     hidden |-> hidden, renderer |-> renderer, tpl |-> tpl,
     summaryType |-> summaryType, summaryRenderer |-> summaryRenderer,
     align |-> align]

ColumnOrder ==
    << Col(1, Undefined, "", "rownumberer", FALSE, "none", FALSE, Undefined, "none", "right"),
       Col(2, Str("name"), "Name", "gridcolumn", FALSE, "none", FALSE, Undefined, "none", "left"),
       Col(3, Str("age"), "Age", "gridcolumn", FALSE, "none", FALSE, Str("sum"), "none", "right"),
       Col(4, Str("dept"), "Dept", "gridcolumn", FALSE, "mark", FALSE, Str("count"), "total", "left"),
       Col(5, Str("name"), "Secret", "gridcolumn", TRUE, "none", FALSE, Undefined, "none", "left"),
       Col(6, Undefined, "Info", "templatecolumn", FALSE, "mark", TRUE, Undefined, "total", "center"),
       Col(7, Undefined, "", "actioncolumn", FALSE, "none", FALSE, Undefined, "none", "center"),
       Col(8, Str("age"), "Age+", "gridcolumn", FALSE, "undef", FALSE, Str("bogus"), "none", "right") >>

ColumnSeqs == SubSeqs(ColumnOrder, MaxCols)

\* a renderer supplied by the host, called with (value, meta, record, ...):
\* "mark" returns a value made from its argument, "undef" returns nothing
Renderer(kind, value) ==
    CASE kind = "mark" -> (IF value.t = "number" THEN Num(value.n + 100)
                           ELSE Str("rendered"))
      [] kind = "total" -> Val("string", value.n, "Total", {})
      [] OTHER -> Undefined

\* column.tpl.apply(rcd.data): the markup a template column makes of a record
TplApply(rcd) == Val("string", rcd.id, "tpl", {})

(***************************************************************************)
(* Features of the grid view, the row expander plugin and the store.       *)
(***************************************************************************)
Feature(ftype, remoteRoot) ==
    [ftype |-> ftype, remoteRoot |-> remoteRoot, showSummaryRow |-> TRUE,
     hideGroupedHeader |-> TRUE]

NoFeature == Feature("", "")

FeatureLists ==
    { <<>>,
      <<Feature("grouping", "")>>,
      <<Feature("groupingsummary", "")>>,
      <<Feature("summary", "")>>,
      <<Feature("grouping", ""), Feature("summary", "")>>,
      <<Feature("groupingsummary", ""), Feature("summary", "")>>,
      <<Feature("summary", "summaryData")>> }

\* store.proxy.reader.rawData[remoteRoot] of a store whose summaries the
\* server computed: a sequence of one summary object
RemoteSummary == <<Rec(0, Str(""), Num(5), Str("eng"))>>

GroupField == Str("dept")

Grid(cols, recs, feats, grouped, expander) ==
    [columns |-> cols,
     store |-> [records |-> recs, grouped |-> grouped,
                buffered |-> FALSE, pageSize |-> 25, currentPage |-> 1,
                rawData |-> IF \E i \in 1..Len(feats) : feats[i].remoteRoot # ""
                             THEN RemoteSummary ELSE <<>>],
     features |-> feats,
     rowexpander |-> expander]

Grids ==
    { Grid(cols, recs, feats, grouped, expander) :
        cols \in ColumnSeqs, recs \in RecordSeqs, feats \in FeatureLists,
        grouped \in BOOLEAN, expander \in BOOLEAN }

\* a grid on an Ext.data.BufferedStore: records is the data set of the
\* server, of which the store shows the page currentPage of pageSize records
BufferedGrid(cols, recs, pageSize, currentPage) ==
    [Grid(cols, recs, <<>>, FALSE, FALSE) EXCEPT
        !.store.buffered = TRUE,
        !.store.pageSize = pageSize,
        !.store.currentPage = currentPage]

BufferedGrids ==
    { BufferedGrid(cols, recs, pageSize, currentPage) :
        cols \in ColumnSeqs, recs \in RecordSeqs,
        pageSize \in 1..MaxPageSize, currentPage \in 1..MaxPage }

\* store.getRange(start, end) of a buffered store: the records at the
\* 0-based indices start to end, end included, as far as the data set goes
GetRange(store, start, end) ==
    LET last == IF end + 1 < Len(store.records) THEN end + 1 ELSE Len(store.records)
    IN IF start + 1 > last THEN <<>>
       ELSE [i \in 1..(last - start) |-> store.records[start + i]]

\* store.isGrouped()
StoreIsGrouped(store) == store.grouped

\* store.groupField / feature.getGroupField(): the field the store groups by
StoreGroupField(store) == IF store.grouped THEN GroupField ELSE Undefined

RECURSIVE FirstFeature(_, _, _)
FirstFeature(features, i, featureFType) ==
    IF i > Len(features) THEN NoFeature
    ELSE IF \/ (featureFType = "grouping"
                /\ features[i].ftype \in {"grouping", "groupingsummary"})
            \/ (featureFType = "groupingsummary"
                /\ features[i].ftype = "groupingsummary")
            \/ (featureFType = "summary" /\ features[i].ftype = "summary")
         THEN features[i]
         ELSE FirstFeature(features, i + 1, featureFType)

\* getFeature(grid, featureFType): the first feature of that type, or
\* nothing (NoFeature stands for undefined)
getFeature(g, featureFType) == FirstFeature(g.features, 1, featureFType)

HasFeature(f) == f # NoFeature

(***************************************************************************)
(* The store's aggregates (Ext.data.Store): over all records, or, with     *)
(* grouped = true on a grouped store, an object keyed by group key.        *)
(***************************************************************************)
RECURSIVE GroupsOf(_)
\* store.getGroups(): one group per key, in the order the keys first occur,
\* each with its records in store order
GroupsOf(recs) ==
    IF recs = <<>> THEN <<>>
    ELSE LET k == Head(recs).dept
         IN <<[name |-> k, children |-> SelectSeq(recs, LAMBDA r : r.dept = k)]>>
            \o GroupsOf(SelectSeq(recs, LAMBDA r : r.dept # k))

FieldNums(recs, field) == [i \in 1..Len(recs) |-> Get(recs[i], field).n]

AggCount(recs, field) == Num(Len(recs))
AggSum(recs, field) == Num(SumSeq(FieldNums(recs, field)))
AggMin(recs, field) ==
    IF recs = <<>> THEN Undefined
    ELSE Num(Min({FieldNums(recs, field)[i] : i \in 1..Len(recs)}))
AggMax(recs, field) ==
    IF recs = <<>> THEN Undefined
    ELSE Num(Max({FieldNums(recs, field)[i] : i \in 1..Len(recs)}))
AggAverage(recs, field) ==
    LET sum == SumSeq(FieldNums(recs, field))
    IN IF recs = <<>> THEN Num(0)
       ELSE IF sum % Len(recs) = 0 THEN Num(sum \div Len(recs))
       ELSE Ratio(sum, Len(recs))
\* a summaryType function of the host: the field of the last record
AggCustom(recs, field) ==
    IF recs = <<>> THEN Undefined ELSE Get(recs[Len(recs)], field)

\* the store's aggregate methods: over all records or, grouped, per group
StoreCount(store, grouped) ==
    IF grouped /\ StoreIsGrouped(store)
    THEN Obj({<<GroupsOf(store.records)[i].name.s,
                AggCount(GroupsOf(store.records)[i].children, Undefined)>> :
                 i \in 1..Len(GroupsOf(store.records))})
    ELSE AggCount(store.records, Undefined)

StoreMin(store, field, grouped) ==
    IF grouped /\ StoreIsGrouped(store)
    THEN Obj({<<GroupsOf(store.records)[i].name.s,
                AggMin(GroupsOf(store.records)[i].children, field)>> :
                 i \in 1..Len(GroupsOf(store.records))})
    ELSE AggMin(store.records, field)

StoreMax(store, field, grouped) ==
    IF grouped /\ StoreIsGrouped(store)
    THEN Obj({<<GroupsOf(store.records)[i].name.s,
                AggMax(GroupsOf(store.records)[i].children, field)>> :
                 i \in 1..Len(GroupsOf(store.records))})
    ELSE AggMax(store.records, field)

StoreSum(store, field, grouped) ==
    IF grouped /\ StoreIsGrouped(store)
    THEN Obj({<<GroupsOf(store.records)[i].name.s,
                AggSum(GroupsOf(store.records)[i].children, field)>> :
                 i \in 1..Len(GroupsOf(store.records))})
    ELSE AggSum(store.records, field)

StoreAverage(store, field, grouped) ==
    IF grouped /\ StoreIsGrouped(store)
    THEN Obj({<<GroupsOf(store.records)[i].name.s,
                AggAverage(GroupsOf(store.records)[i].children, field)>> :
                 i \in 1..Len(GroupsOf(store.records))})
    ELSE AggAverage(store.records, field)

StoreAggregate(store, fn, grouped, field) ==
    IF grouped /\ StoreIsGrouped(store)
    THEN Obj({<<GroupsOf(store.records)[i].name.s,
                AggCustom(GroupsOf(store.records)[i].children, field)>> :
                 i \in 1..Len(GroupsOf(store.records))})
    ELSE AggCustom(store.records, field)

\* value[me.groupName]: the entry of an object under a key
Lookup(obj, key) ==
    IF \E e \in obj.o : e[1] = key
    THEN (CHOOSE e \in obj.o : e[1] = key)[2]
    ELSE Undefined

(***************************************************************************)
(* getSummary(store, type, field, group), the copy of the document         *)
(* template and the copy of the grouped body template.                     *)
(***************************************************************************)
\* Variant of getSummary that answers 'sum' with the count.
getSummaryMutant(store, type, field, group) ==
    IF Truthy(type)
    THEN CASE type.t = "function" -> StoreAggregate(store, type, group, field)
           [] type = Str("count") -> StoreCount(store, group)
           [] type = Str("min") -> StoreMin(store, field, group)
           [] type = Str("max") -> StoreMax(store, field, group)
           [] type = Str("sum") -> StoreCount(store, group)
           [] type = Str("average") -> StoreAverage(store, field, group)
           [] OTHER -> IF group THEN Obj({}) ELSE Str("")
    ELSE Undefined

getSummary(store, type, field, group) ==
    IF Truthy(type)
    THEN CASE type.t = "function" -> StoreAggregate(store, type, group, field)
           [] type = Str("count") -> StoreCount(store, group)
           [] type = Str("min") -> StoreMin(store, field, group)
           [] type = Str("max") -> StoreMax(store, field, group)
           [] type = Str("sum") -> StoreSum(store, field, group)
           [] type = Str("average") -> StoreAverage(store, field, group)
           [] OTHER -> IF group THEN Obj({}) ELSE Str("")
    ELSE Undefined

getSummary_grouped(store, type, field, group) ==
    IF ~Truthy(type) THEN Undefined
    ELSE CASE type.t = "function" -> StoreAggregate(store, type, group, field)
           [] type = Str("count") -> StoreCount(store, group)
           [] type = Str("min") -> StoreMin(store, field, group)
           [] type = Str("max") -> StoreMax(store, field, group)
           [] type = Str("sum") -> StoreSum(store, field, group)
           [] type = Str("average") -> StoreAverage(store, field, group)
           [] OTHER -> IF group THEN Obj({}) ELSE Str("")

(***************************************************************************)
(* The cell formatter. A meta object carries what a renderer may set; a    *)
(* cell is what getHtml concatenates: the class attribute ("" when the td  *)
(* has none), the extra attributes, the inner class, the text-align of the *)
(* inline style, the extra style and the text of the value.                *)
(***************************************************************************)
Meta(align, cellIndex) ==
    [align |-> align, cellIndex |-> cellIndex, css |-> "", innerCls |-> "",
     style |-> "", tdAttr |-> "", tdCls |-> "",
     unselectableAttr |-> "unselectable=\"on\""]

Cell(class, tdAttr, innerCls, align, style, unselectable, value) ==
    [class |-> class, tdAttr |-> tdAttr, innerCls |-> innerCls, align |-> align,
     style |-> style, unselectable |-> unselectable, value |-> value]

\* what the renderer leaves in the meta object it was handed: "mark" sets
\* meta.tdCls, "total" sets meta.tdCls and meta.css, "undef" sets nothing
RendererMeta(kind, meta) ==
    CASE kind = "mark" -> [meta EXCEPT !.tdCls = "marked"]
      [] kind = "total" -> [meta EXCEPT !.tdCls = "total", !.css = "sum"]
      [] OTHER -> meta

getHtml(value, meta) ==
    LET v == IF ~IsDefined(value) THEN Nbsp ELSE value
        tdClasses0 == IF meta.tdCls # "" THEN meta.tdCls ELSE ""
        tdClasses == IF meta.css # ""
                     THEN (IF tdClasses0 # ""
                           THEN tdClasses0 \o " " \o meta.css
                           ELSE meta.css)
                     ELSE tdClasses0
        \* the class attribute is written inside the  if (meta.css)  block
        class == IF meta.css # "" /\ tdClasses # "" THEN tdClasses ELSE ""
    IN Cell(class, meta.tdAttr, meta.innerCls, meta.align, meta.style,
            meta.unselectableAttr, ToText(v))

getHtml_grouped(value, meta) ==
    LET v == IF ~IsDefined(value) THEN Nbsp ELSE value
        tdClasses0 == IF meta.tdCls # "" THEN meta.tdCls ELSE ""
        tdClasses == IF meta.css # ""
                     THEN (IF tdClasses0 # ""
                           THEN tdClasses0 \o " " \o meta.css
                           ELSE meta.css)
                     ELSE tdClasses0
        class == IF tdClasses # "" THEN tdClasses ELSE ""
    IN Cell(class, meta.tdAttr, meta.innerCls, meta.align, meta.style,
            meta.unselectableAttr, ToText(v))

(***************************************************************************)
(* Arguments of a JavaScript call whose parameters take what the call site *)
(* passes: a column object, a value, or nothing.                           *)
(***************************************************************************)
NoColumn == Col(0, Undefined, "", "", FALSE, "none", FALSE, Undefined, "none", "undefined")
ArgColumn(c) == [k |-> "column", col |-> c, v |-> Undefined]
ArgValue(v) == [k |-> "value", col |-> NoColumn, v |-> v]
ArgNone == ArgValue(Undefined)
\* arg.align: the align of a column object, undefined on a number
PropAlign(arg) == IF arg.k = "column" THEN arg.col.align ELSE "undefined"
\* the value an argument carries into a property such as cellIndex
PropValue(arg) == IF arg.k = "value" THEN arg.v ELSE Str("[object Object]")

(***************************************************************************)
(* Member functions of the document template (getHtmlMarkup).              *)
(***************************************************************************)
\* Variant of renderColumn that shows the raw field value of every column.
renderColumnMutant(g, column, value, rcd, col) ==
    getHtml(value, Meta(column.align, Num(col)))

renderColumn(g, column, value, rcd, col) ==
    LET meta == Meta(column.align, Num(col))
    IN IF column.xtype = "templatecolumn"
       THEN getHtml(IF column.tpl THEN TplApply(rcd) ELSE value, meta)
       ELSE IF column.renderer # "none"
       THEN getHtml(Renderer(column.renderer, value),
                    RendererMeta(column.renderer, meta))
       ELSE getHtml(value, meta)

\* Variant of applyTpl that applies the template to no record.
applyTplMutant(rcd) == TplApply(NoRecord)

\* applyTpl(rcd): the row expander's template applied to the record
applyTpl(rcd) == TplApply(rcd)

\* the summary record of a remote summary: the model instance populated
\* from rawData[remoteRoot] (its first entry when that is an array)
RemoteSummaryRecord(g) ==
    IF g.store.rawData # <<>> THEN g.store.rawData[1] ELSE NoRecord

getSummaryRecord42(g, cols, summaryFeature) ==
    IF summaryFeature.remoteRoot # ""
    THEN LET r == RemoteSummaryRecord(g)
         IN {<<"name", r.name>>, <<"age", r.age>>, <<"dept", r.dept>>}
    ELSE {<<cols[i].dataIndex.s,
            getSummary(g.store, cols[i].summaryType, cols[i].dataIndex, FALSE)>> :
            i \in {j \in 1..Len(cols) :
                     IsDefined(getSummary(g.store, cols[j].summaryType,
                                          cols[j].dataIndex, FALSE))}}

getSummaryObject42(value, column, colIndex, rcd) ==
    Meta(PropAlign(column), PropValue(colIndex))

\* Variant of renderSummary without the test for a zero summary value.
renderSummaryMutant(g, cols, summaryFeature, column, colIndex) ==
    LET value == IF summaryFeature.remoteRoot # ""
                 THEN Get(RemoteSummaryRecord(g), column.dataIndex)
                 ELSE getSummary(g.store, column.summaryType, column.dataIndex, FALSE)
    IN IF column.summaryRenderer # "none"
       THEN getHtml(Renderer(column.summaryRenderer, value),
                    getSummaryObject42(ArgValue(value), ArgColumn(column),
                                       ArgValue(Num(colIndex)), ArgNone))
       ELSE getHtml(IF ~IsDefined(value) THEN Nbsp ELSE value,
                    getSummaryObject42(ArgColumn(column), ArgValue(Num(colIndex)),
                                       ArgNone, ArgNone))

renderSummary(g, cols, summaryFeature, column, colIndex) ==
    LET value == IF summaryFeature.remoteRoot # ""
                 THEN Get(RemoteSummaryRecord(g), column.dataIndex)
                 ELSE getSummary(g.store, column.summaryType, column.dataIndex, FALSE)
    IN IF column.summaryRenderer # "none"
       THEN LET summaryRcd == getSummaryRecord42(g, cols, summaryFeature)
                summaryObject == getSummaryObject42(ArgValue(value), ArgColumn(column),
                                                    ArgValue(Num(colIndex)), ArgNone)
            IN getHtml(Renderer(column.summaryRenderer, value),
                       RendererMeta(column.summaryRenderer, summaryObject))
       ELSE \* getSummaryObject42(column, colIndex): two arguments for the
            \* parameters (value, column, colIndex, rcd)
            LET meta == getSummaryObject42(ArgColumn(column), ArgValue(Num(colIndex)),
                                           ArgNone, ArgNone)
            IN IF ~IsDefined(value) \/ LooseEqZero(value)
               THEN getHtml(Nbsp, meta)
               ELSE getHtml(value, meta)

(***************************************************************************)
(* Member functions of the grouped body template (generateBody).           *)
(* A call that throws yields Thrown.                                       *)
(***************************************************************************)
NoCell == Cell("", "", "", "", "", "", Undefined)
Returned(cell) == [ok |-> TRUE, cell |-> cell]
Thrown == [ok |-> FALSE, cell |-> NoCell]

renderColumn_grouped(g, column, value, rcd, col) ==
    LET meta == Meta(column.align, Num(col))
    IN IF column.renderer # "none"
       THEN getHtml_grouped(Renderer(column.renderer, value),
                            RendererMeta(column.renderer, meta))
       ELSE getHtml_grouped(value, meta)

\* a == b with JavaScript's loose equality, for strings, numbers and the
\* missing values
LooseEq(a, b) ==
    CASE a.t = b.t -> a = b
      [] {a.t, b.t} = {"undefined", "null"} -> TRUE
      [] a.t = "number" /\ b.t = "string" -> b.s \in {"", "0"} /\ a.n = 0
      [] a.t = "string" /\ b.t = "number" -> a.s \in {"", "0"} /\ b.n = 0
      [] OTHER -> FALSE

RECURSIVE ScanSummaryRcd(_, _, _, _)
ScanSummaryRcd(rawDataObject, i, fieldName, value) ==
    IF i > Len(rawDataObject) THEN NoRecord
    ELSE IF Truthy(Get(rawDataObject[i], fieldName))
            /\ LooseEq(Get(rawDataObject[i], fieldName), value)
         THEN rawDataObject[i]
         ELSE ScanSummaryRcd(rawDataObject, i + 1, fieldName, value)

\* getSummaryRcd(rawDataObject, fieldName, value) on a sequence payload;
\* NoRecord stands for undefined
getSummaryRcd(rawDataObject, fieldName, value) ==
    ScanSummaryRcd(rawDataObject, 1, fieldName, value)

\* getSummaryRecord42(): the loop calls Ext.isDefomed, which is no function
\* of Ext, so the first iteration throws a TypeError
getSummaryRecord42_grouped(g, cols) ==
    IF Len(cols) > 0 THEN [ok |-> FALSE, data |-> {}]
    ELSE [ok |-> TRUE, data |-> {}]

getSummaryObject42_grouped(g, cols, column, colIndex) ==
    IF getSummaryRecord42_grouped(g, cols).ok
    THEN [ok |-> TRUE, meta |-> Meta(column.align, Num(colIndex))]
    ELSE [ok |-> FALSE, meta |-> Meta("", Undefined)]

renderSummary_grouped(g, cols, summaryFeature, groupName, column, colIndex) ==
    LET value0 ==
            IF summaryFeature.remoteRoot # ""
            THEN Get(IF g.store.rawData # <<>>
                     THEN getSummaryRcd(g.store.rawData, StoreGroupField(g.store),
                                        groupName)
                     ELSE NoRecord,
                     column.dataIndex)
            ELSE getSummary_grouped(g.store, column.summaryType, column.dataIndex,
                                    StoreIsGrouped(g.store))
        value == IF IsObject(value0) THEN Lookup(value0, groupName.s) ELSE value0
    IN IF column.summaryRenderer # "none"
       THEN LET summaryObject == getSummaryObject42_grouped(g, cols, column, colIndex)
            IN IF ~summaryObject.ok THEN Thrown
               ELSE Returned(getHtml_grouped(
                        Renderer(column.summaryRenderer, value),
                        RendererMeta(column.summaryRenderer, summaryObject.meta)))
       ELSE \* '<td><div>' + value + '</div></td>'
            Returned(Cell("", "", "", "", "", "",
                          ToText(IF ~IsDefined(value) \/ LooseEqZero(value)
                                 THEN Nbsp ELSE value)))

\* applyGroupTpl(rcd): the group header the feature's groupHeaderTpl makes of
\* the group name, rendered by the group column's renderer when it has one
applyGroupTpl(groupColumn, rcd) ==
    IF groupColumn # NoColumn /\ groupColumn.renderer # "none"
    THEN ToText(Renderer(groupColumn.renderer, rcd.name))
    ELSE ToText(rcd.name)

(***************************************************************************)
(* Rows of the document: the header row, body rows, detail rows of the     *)
(* row expander, group-header rows and summary rows.                       *)
(***************************************************************************)
Row(kind, cls, rec, colspan, cells) ==
    [kind |-> kind, cls |-> cls, rec |-> rec, colspan |-> colspan, cells |-> cells]

\* Variant of RowCls with the two classes exchanged.
RowClsMutant(xindex) == IF xindex % 2 = 0 THEN "odd" ELSE "even"

\* {[xindex % 2 === 0 ? "even" : "odd"]}
RowCls(xindex) == IF xindex % 2 = 0 THEN "even" ELSE "odd"

\* headerTpl applied to the columns
Headings(cols) ==
    Row("header", "", 0, 0,
        [i \in 1..Len(cols) |->
            Cell("", "", "", cols[i].align, "", "", Str(cols[i].text))])

RECURSIVE Concat(_)
Concat(ss) == IF ss = <<>> THEN <<>> ELSE Head(ss) \o Concat(Tail(ss))

\* store.getGroups(): the Ext.util.GroupCollection of the store, a group
\* object per key with its key and its items
GetGroups(store) ==
    [i \in 1..Len(GroupsOf(store.records)) |->
        [groupKey |-> GroupsOf(store.records)[i].name,
         items |-> GroupsOf(store.records)[i].children]]

RECURSIVE NewGroupsLoop(_, _, _)
\* for (var i = 0; i < groups.getCount(); i++) newGroups.push({...})
NewGroupsLoop(groups, i, newGroups) ==
    IF ~(i < Len(groups)) THEN newGroups
    ELSE NewGroupsLoop(groups, i + 1,
                       Append(newGroups, [name |-> groups[i + 1].groupKey,
                                          children |-> groups[i + 1].items]))

\* Variant of NewGroups that starts the loop at the second group.
NewGroupsMutant(store) == NewGroupsLoop(GetGroups(store), 1, <<>>)

\* the groups handed to the grouped body template: {name, children} made of
\* store.getGroups()
NewGroups(store) == NewGroupsLoop(GetGroups(store), 0, <<>>)

\* grid.columns scanned for the column of the group field (the last match)
GroupColumn(g, groupField) ==
    LET hits == {i \in 1..Len(g.columns) : LooseEq(g.columns[i].dataIndex, groupField)}
    IN IF hits = {} THEN NoColumn ELSE g.columns[Max(hits)]

\* the grouped body template applied to the groups
GroupedBody(g, cols, groupFeature) ==
    LET groups == NewGroups(g.store)
        groupingSummaryFeature == getFeature(g, "groupingsummary")
        hasSummary == HasFeature(groupingSummaryFeature)
                      /\ groupingSummaryFeature.showSummaryRow
        groupColumn == GroupColumn(g, StoreGroupField(g.store))
        summary(grp) ==
            [i \in 1..Len(cols) |->
                renderSummary_grouped(g, cols, groupingSummaryFeature, grp.name,
                                      cols[i], i)]
        rowsOf(grp) ==
            <<Row("group-header", "group-header", 0, Len(cols),
                  <<Cell("", "", "", "", "", "", applyGroupTpl(groupColumn, grp))>>)>>
            \o [x \in 1..Len(grp.children) |->
                   Row("body", RowCls(x), grp.children[x].id, 0,
                       [i \in 1..Len(cols) |->
                           renderColumn_grouped(g, cols[i],
                               Get(grp.children[x], cols[i].dataIndex),
                               grp.children[x], i)])]
            \o (IF hasSummary
                THEN <<Row("group-summary", "", 0, 0,
                           [i \in 1..Len(cols) |-> summary(grp)[i].cell])>>
                ELSE <<>>)
    IN [ok |-> ~hasSummary
               \/ \A k \in 1..Len(groups) : \A i \in 1..Len(cols) :
                     summary(groups[k])[i].ok,
        rows |-> Concat([k \in 1..Len(groups) |-> rowsOf(groups[k])])]

\* generateBody(grid, columns, groupFeature): the per-record body template
\* (flat), or the markup of the groups
generateBody(g, cols, groupFeature) ==
    LET groups == <<>>    \* var groups = [];
    IN IF ~StoreIsGrouped(g.store) \/ Len(groups) = 0 \/ ~HasFeature(groupFeature)
       THEN [flat |-> TRUE, ok |-> TRUE, rows |-> <<>>]
       ELSE [flat |-> FALSE, ok |-> GroupedBody(g, cols, groupFeature).ok,
             rows |-> GroupedBody(g, cols, groupFeature).rows]

\* Variant of getHtmlMarkup whose trailing summary row needs flat mode.
getHtmlMarkupMutant(g, cols, isGrouped) ==
    LET groupFeature == IF isGrouped THEN getFeature(g, "grouping") ELSE NoFeature
        summaryFeature == getFeature(g, "summary")
    IN [isGrouped |-> isGrouped,
        body |-> generateBody(g, cols, groupFeature),
        headings |-> Headings(cols),
        hasSummary |-> HasFeature(summaryFeature) /\ ~isGrouped,
        summaryFeature |-> summaryFeature,
        expanderTemplate |-> g.rowexpander]

\* getHtmlMarkup(grid, columns, isGrouped): the document template and its
\* configuration
getHtmlMarkup(g, cols, isGrouped) ==
    LET groupFeature == IF isGrouped THEN getFeature(g, "grouping") ELSE NoFeature
        summaryFeature == getFeature(g, "summary")
    IN [isGrouped |-> isGrouped,
        body |-> generateBody(g, cols, groupFeature),
        headings |-> Headings(cols),
        hasSummary |-> HasFeature(summaryFeature),
        summaryFeature |-> summaryFeature,
        expanderTemplate |-> g.rowexpander]

RECURSIVE TplFor(_, _, _, _, _)
\* <tpl for="."> of the document template, from the xindex-th record on
TplFor(tpl, g, cols, records, xindex) ==
    IF xindex > Len(records) THEN <<>>
    ELSE LET rcd == records[xindex]
             cells == IF tpl.body.flat
                      THEN [i \in 1..Len(cols) |->
                               renderColumn(g, cols[i], Get(rcd, cols[i].dataIndex),
                                            rcd, i)]
                      ELSE <<>>
         IN <<Row("body", RowCls(xindex), rcd.id, 0, cells)>>
            \o (IF tpl.body.flat THEN <<>> ELSE tpl.body.rows)
            \o (IF tpl.expanderTemplate
                THEN <<Row("detail", RowCls(xindex), rcd.id, Len(cols),
                           <<Cell("", "", "", "", "", "", applyTpl(rcd))>>)>>
                ELSE <<>>)
            \o (IF tpl.isGrouped /\ xindex > 0    \* break
                THEN <<>>
                ELSE TplFor(tpl, g, cols, records, xindex + 1))

\* Ext.create('Ext.XTemplate', htmlMarkup).apply(records)
XTemplateApply(tpl, g, cols, records) ==
    <<tpl.headings>>
    \o TplFor(tpl, g, cols, records, 1)
    \o (IF tpl.hasSummary
        THEN <<Row("summary", "", 0, 0,
                   [i \in 1..Len(cols) |->
                       renderSummary(g, cols, tpl.summaryFeature, cols[i], i)])>>
        ELSE <<>>)

(***************************************************************************)
(* print(grid).                                                            *)
(***************************************************************************)
\* Variant of EachColumn that keeps the group field's column.
EachColumnMutant(column, isGrouped, groupField) ==
    IF ~IsEmpty(column.dataIndex) /\ ~column.hidden /\ ~isGrouped
    THEN [push |-> TRUE, column |-> column]
    ELSE IF column.xtype = "rownumberer"
    THEN [push |-> TRUE,
          column |-> IF column.text = "" THEN [column EXCEPT !.text = "Row"]
                     ELSE column]
    ELSE IF column.xtype = "templatecolumn"
    THEN [push |-> TRUE, column |-> column]
    ELSE IF isGrouped /\ column.xtype # "actioncolumn"
    THEN [push |-> TRUE, column |-> column]
    ELSE [push |-> FALSE, column |-> column]

\* the body of Ext.each(columns, ...): whether the column is pushed to
\* clearColumns, and the column as the callback leaves it
EachColumn(column, isGrouped, groupField) ==
    IF ~IsEmpty(column.dataIndex) /\ ~column.hidden /\ ~isGrouped
    THEN [push |-> TRUE, column |-> column]
    ELSE IF column.xtype = "rownumberer"
    THEN [push |-> TRUE,
          column |-> IF column.text = "" THEN [column EXCEPT !.text = "Row"]
                     ELSE column]
    ELSE IF column.xtype = "templatecolumn"
    THEN [push |-> TRUE, column |-> column]
    ELSE IF isGrouped /\ column.dataIndex # groupField
            /\ column.xtype # "actioncolumn"
    THEN [push |-> TRUE, column |-> column]
    ELSE [push |-> FALSE, column |-> column]

RECURSIVE ClearColumns(_, _, _)
ClearColumns(cols, isGrouped, groupField) ==
    IF cols = <<>> THEN <<>>
    ELSE LET e == EachColumn(Head(cols), isGrouped, groupField)
         IN (IF e.push THEN <<e.column>> ELSE <<>>)
            \o ClearColumns(Tail(cols), isGrouped, groupField)

\* the feature print looks up when the store is grouped
PrintFeature(g) ==
    IF StoreIsGrouped(g.store) THEN getFeature(g, "grouping") ELSE NoFeature

\* Variant of PrintIsGrouped that leaves isGrouped on without a feature.
PrintIsGroupedMutant(g) == StoreIsGrouped(g.store)

\* isGrouped after "isGrouped turned off if grouping feature not defined"
PrintIsGrouped(g) == StoreIsGrouped(g.store) /\ HasFeature(PrintFeature(g))

PrintGroupField(g) ==
    IF PrintIsGrouped(g) THEN StoreGroupField(g.store) ELSE Undefined

Event(name, arg) == [name |-> name, arg |-> arg]

NoWindow == [opened |-> FALSE, written |-> FALSE]
NoCall == [fn |-> "", copy |-> "", args |-> <<>>, result |-> <<>>]
EmptyGrid == Grid(<<>>, <<>>, <<>>, FALSE, FALSE)

(***************************************************************************)
(* _printGrid(records). What the host and the listeners do is an           *)
(* environment: veto (a beforePrint listener returns false), winOpens      *)
(* (window.open returns a window), failAt (the window call that throws),   *)
(* listener (the call of a 'print' listener that throws: with successful   *)
(* true, with successful false, or none) and the two configs.  The result  *)
(* is the ordered log of what _printGrid did: the template applied, the    *)
(* events fired (beforePrint with what fireEvent returned, print with its  *)
(* argument, afterPrint), the window calls (arg: whether the call          *)
(* completed) and, last, how the call ended (return or throw).             *)
(***************************************************************************)
EventNames == {"beforePrint", "print", "afterPrint"}
WindowCalls == {"document.write", "win.print", "win.close"}

Envs ==
    [veto : BOOLEAN, winOpens : BOOLEAN,
     failAt : {"none"} \cup WindowCalls,
     listener : {"none", "printTrue", "printFalse"},
     printAutomatically : BOOLEAN, closeAutomaticallyAfterPrint : BOOLEAN]

\* the window calls of the try block, in order
TryCalls(env) ==
    <<"document.write">>
    \o (IF env.printAutomatically THEN <<"win.print">> ELSE <<>>)
    \o (IF env.closeAutomaticallyAfterPrint THEN <<"win.close">> ELSE <<>>)

RECURSIVE TryLog(_, _)
\* the calls of the try block up to and with the one that throws
TryLog(calls, failAt) ==
    IF calls = <<>> THEN <<>>
    ELSE IF Head(calls) = failAt THEN <<Event(Head(calls), FALSE)>>
    ELSE <<Event(Head(calls), TRUE)>> \o TryLog(Tail(calls), failAt)

\* Variant of printGrid that fires afterPrint after a failed try block too.
printGridMutant(env) ==
    LET Return == <<Event("return", TRUE)>>
        Throw == <<Event("throw", TRUE)>>
        fireFalse == <<Event("print", FALSE)>>
                     \o (IF env.listener = "printFalse" THEN Throw ELSE Return)
        tryLog == TryLog(TryCalls(env), env.failAt)
        threw == tryLog # <<>> /\ ~tryLog[Len(tryLog)].arg
    IN <<Event("apply", TRUE), Event("beforePrint", ~env.veto)>>
       \o (IF env.veto THEN Return
           ELSE IF ~env.winOpens
           THEN <<Event("window.open", FALSE)>> \o fireFalse
           ELSE <<Event("window.open", TRUE)>> \o tryLog
                \o (IF threw
                    THEN <<Event("print", FALSE), Event("afterPrint", TRUE)>> \o Return
                    ELSE <<Event("print", TRUE)>>
                         \o (IF env.listener = "printTrue"
                             THEN fireFalse
                             ELSE <<Event("afterPrint", TRUE)>> \o Return)))

\* Variant of printGrid that goes on when a beforePrint listener returns false.
printGridVetoMutant(env) ==
    LET Return == <<Event("return", TRUE)>>
        Throw == <<Event("throw", TRUE)>>
        fireFalse == <<Event("print", FALSE)>>
                     \o (IF env.listener = "printFalse" THEN Throw ELSE Return)
        tryLog == TryLog(TryCalls(env), env.failAt)
        threw == tryLog # <<>> /\ ~tryLog[Len(tryLog)].arg
    IN <<Event("apply", TRUE), Event("beforePrint", ~env.veto)>>
       \o (IF ~env.winOpens
           THEN <<Event("window.open", FALSE)>> \o fireFalse
           ELSE <<Event("window.open", TRUE)>> \o tryLog
                \o (IF threw
                    THEN fireFalse
                    ELSE <<Event("print", TRUE)>>
                         \o (IF env.listener = "printTrue"
                             THEN fireFalse
                             ELSE <<Event("afterPrint", TRUE)>> \o Return)))

printGrid(env) ==
    LET Return == <<Event("return", TRUE)>>
        Throw == <<Event("throw", TRUE)>>
        \* me.fireEvent('print', false); return;
        fireFalse == <<Event("print", FALSE)>>
                     \o (IF env.listener = "printFalse" THEN Throw ELSE Return)
        tryLog == TryLog(TryCalls(env), env.failAt)
        threw == tryLog # <<>> /\ ~tryLog[Len(tryLog)].arg
    IN <<Event("apply", TRUE), Event("beforePrint", ~env.veto)>>
       \o (IF env.veto THEN Return
           ELSE IF ~env.winOpens
           THEN <<Event("window.open", FALSE)>> \o fireFalse
           ELSE <<Event("window.open", TRUE)>> \o tryLog
                \o (IF threw
                    THEN fireFalse
                    ELSE \* me.fireEvent('print', true) is inside the try block:
                         \* a listener that throws is caught by the catch
                         <<Event("print", TRUE)>>
                         \o (IF env.listener = "printTrue"
                             THEN fireFalse
                             ELSE <<Event("afterPrint", TRUE)>> \o Return)))

\* the logs _printGrid can leave
PrintLogs == {printGrid(env) : env \in Envs}

Did(log, name, arg) == \E i \in 1..Len(log) : log[i] = Event(name, arg)

NoRange == [requested |-> FALSE, start |-> 0, end |-> 0,
            delivered |-> FALSE, records |-> <<>>]

\* var start = (store.currentPage - 1) * pageSize;
RangeStart(store) == (store.currentPage - 1) * store.pageSize
\* var end = start + pageSize;
RangeEnd(start, pageSize) == start + pageSize

\* print(grid): the columns are normalised; on a store that holds its records
\* _printGrid renders the markup, fires beforePrint, opens the window, writes
\* the document and fires print and afterPrint; on a buffered store print
\* asks the store for the range of the current page and returns, and
\* _printGrid runs in the callback of getRange.
print ==
    /\ pc = "idle"
    /\ LET isGrouped == PrintIsGrouped(grid)
           feature == PrintFeature(grid)
           groupField == PrintGroupField(grid)
           clearColumns == ClearColumns(grid.columns, isGrouped, groupField)
           after == [grid EXCEPT !.columns =
                       [i \in 1..Len(grid.columns) |->
                           EachColumn(grid.columns[i], isGrouped, groupField).column]]
           records == after.store.records
           \* getHtmlMarkup(grid, columns, feature, isGrouped): the third
           \* parameter, isGrouped, receives the feature
           htmlMarkup == getHtmlMarkup(after, clearColumns, HasFeature(feature))
           pageSize == after.store.pageSize
           start == RangeStart(after.store)
           end == RangeEnd(start, pageSize)
       IN /\ grid' = after
          /\ columns' = clearColumns
          /\ IF after.store.buffered
             THEN /\ range' = [NoRange EXCEPT !.requested = TRUE,
                                              !.start = start, !.end = end]
                  /\ pc' = "waiting"
                  /\ UNCHANGED <<html, events, win>>
             ELSE /\ html' = XTemplateApply(htmlMarkup, after, clearColumns, records)
                  /\ \E log \in PrintLogs :
                        /\ events' = log
                        /\ win' = [opened |-> Did(log, "window.open", TRUE),
                                   written |-> Did(log, "document.write", TRUE)]
                  /\ pc' = "printed"
                  /\ UNCHANGED range
    /\ UNCHANGED call

\* callback: function(records) { _printGrid(records); } of store.getRange:
\* the store delivers the requested range and _printGrid prints it with the
\* columns, feature and isGrouped print left in its closure
callback ==
    /\ pc = "waiting"
    /\ range.requested /\ ~range.delivered
    /\ LET records == GetRange(grid.store, range.start, range.end)
           htmlMarkup == getHtmlMarkup(grid, columns, HasFeature(PrintFeature(grid)))
       IN /\ range' = [range EXCEPT !.delivered = TRUE, !.records = records]
          /\ html' = XTemplateApply(htmlMarkup, grid, columns, records)
          /\ \E log \in PrintLogs :
                /\ events' = log
                /\ win' = [opened |-> Did(log, "window.open", TRUE),
                           written |-> Did(log, "document.write", TRUE)]
    /\ pc' = "printed"
    /\ UNCHANGED <<grid, columns, call>>

(***************************************************************************)
(* Calls of the templates' member functions on their own.                  *)
(***************************************************************************)
SummaryTypes ==
    { Undefined, Null, Str(""), Str("count"), Str("min"), Str("max"), Str("sum"),
      Str("average"), Str("bogus"), Fn("last") }

Called(fn, copy, args, result) ==
    [fn |-> fn, copy |-> copy, args |-> args, result |-> result]

CallGetSummary ==
    /\ pc = "template"
    /\ \E recs \in RecordSeqs, grouped \in BOOLEAN, type \in SummaryTypes,
          group \in BOOLEAN, copy \in {"document", "grouped"} :
        LET store == Grid(<<>>, recs, <<>>, grouped, FALSE).store
        IN call' = Called("getSummary", copy, <<store, type, Str("age"), group>>,
                          IF copy = "document"
                          THEN getSummary(store, type, Str("age"), group)
                          ELSE getSummary_grouped(store, type, Str("age"), group))
    /\ pc' = "called"
    /\ UNCHANGED <<grid, columns, html, events, win, range>>

CallRenderColumnGrouped ==
    /\ pc = "template"
    /\ \E i \in 1..Len(ColumnOrder), k \in 1..Len(StoreOrder), col \in 1..MaxCols :
        LET column == ColumnOrder[i]
            rcd == StoreOrder[k]
        IN call' = Called("renderColumn", "grouped", <<column, rcd, col>>,
                          renderColumn_grouped(EmptyGrid, column,
                                               Get(rcd, column.dataIndex), rcd, col))
    /\ pc' = "called"
    /\ UNCHANGED <<grid, columns, html, events, win, range>>

CallRenderSummaryGrouped ==
    /\ pc = "template"
    /\ \E cols \in ColumnSeqs \ {<<>>}, recs \in RecordSeqs \ {<<>>} :
       \E i \in 1..Len(cols), k \in 1..Len(recs) :
        LET g == Grid(cols, recs, <<Feature("groupingsummary", "")>>, TRUE, FALSE)
        IN call' = Called("renderSummary", "grouped", <<g, cols[i], recs[k].dept>>,
                          renderSummary_grouped(g, cols, g.features[1],
                                                recs[k].dept, cols[i], i))
    /\ pc' = "called"
    /\ UNCHANGED <<grid, columns, html, events, win, range>>

\* the entries of a remote per-group summary payload, in payload order: two
\* for one group, one whose group field is the empty string, one without it
SummaryEntries ==
    << Rec(1, Str("first"), Num(5), Str("eng")),
       Rec(2, Str("second"), Num(7), Str("eng")),
       Rec(3, Str("third"), Num(9), Str("")),
       Rec(4, Str("fourth"), Num(2), Undefined) >>

GroupKeys == {Str("eng"), Str("sales"), Str("")}

CallGetSummaryRcd ==
    /\ pc = "template"
    /\ \E rawDataObject \in SubSeqs(SummaryEntries, Len(SummaryEntries)),
          value \in GroupKeys :
        call' = Called("getSummaryRcd", "grouped",
                       <<rawDataObject, GroupField, value>>,
                       getSummaryRcd(rawDataObject, GroupField, value))
    /\ pc' = "called"
    /\ UNCHANGED <<grid, columns, html, events, win, range>>

\* the record sequences of a grouped store: sorted by the group field, and
\* two orders in which the records of a group are not adjacent
GroupedRecordSeqs ==
    RecordSeqs \cup {<<StoreOrder[1], StoreOrder[3], StoreOrder[2]>>,
                     <<StoreOrder[3], StoreOrder[1], StoreOrder[4]>>}

CallNewGroups ==
    /\ pc = "template"
    /\ \E recs \in GroupedRecordSeqs :
        LET store == Grid(<<>>, recs, <<Feature("grouping", "")>>, TRUE, FALSE).store
        IN call' = Called("newGroups", "grouped", <<store>>, NewGroups(store))
    /\ pc' = "called"
    /\ UNCHANGED <<grid, columns, html, events, win, range>>

\* the class strings a renderer can leave in a meta object
ClassStrings == {"", "x-grid-cell", "x-grid-dirty-cell"}

CallGetHtml ==
    /\ pc = "template"
    /\ \E tdCls \in ClassStrings, css \in ClassStrings,
          value \in {Undefined, Null, Num(0), Str("a")},
          copy \in {"document", "grouped"} :
        LET meta == [Meta("left", Num(1)) EXCEPT !.tdCls = tdCls, !.css = css]
        IN call' = Called("getHtml", copy, <<value, meta>>,
                          IF copy = "document" THEN getHtml(value, meta)
                          ELSE getHtml_grouped(value, meta))
    /\ pc' = "called"
    /\ UNCHANGED <<grid, columns, html, events, win, range>>

Init ==
    /\ \/ pc = "idle" /\ grid \in Grids \cup BufferedGrids
       \/ pc = "template" /\ grid = EmptyGrid
    /\ columns = <<>>
    /\ html = <<>>
    /\ events = <<>>
    /\ win = NoWindow
    /\ call = NoCall
    /\ range = NoRange

Next ==
    \/ print
    \/ callback
    \/ CallGetSummary
    \/ CallRenderColumnGrouped
    \/ CallRenderSummaryGrouped
    \/ CallGetSummaryRcd
    \/ CallGetHtml
    \/ CallNewGroups

Spec == Init /\ [][Next]_vars

(***************************************************************************)
(* Properties.                                                             *)
(***************************************************************************)
Printed == pc = "printed"
\* the records _printGrid is handed: the range delivered by a buffered store,
\* the records of any other store
Records == IF grid.store.buffered THEN range.records ELSE grid.store.records
RowsOfKind(kinds) == SelectSeq(html, LAMBDA r : r.kind \in kinds)
BodyRows == RowsOfKind({"body"})
RecordOf(row) == StoreOrder[row.rec]
Ids(cols) == [i \in 1..Len(cols) |-> cols[i].id]
Parity(i) == IF i % 2 = 1 THEN "odd" ELSE "even"

RECURSIVE IsSubSeq(_, _)
\* a is a subsequence of b
IsSubSeq(a, b) ==
    IF a = <<>> THEN TRUE
    ELSE IF b = <<>> THEN FALSE
    ELSE IF Head(a) = Head(b) THEN IsSubSeq(Tail(a), Tail(b))
    ELSE IsSubSeq(a, Tail(b))

\* C1: flat mode: printing a non-empty record sequence from a store that is
\* not grouped gives exactly one header row, first, then one body row per
\* record in record order, one cell per normalized column, with the classes
\* odd, even, odd, ... from the first row on.
C1_FlatRowsAlternate ==
    (Printed /\ ~StoreIsGrouped(grid.store) /\ Records # <<>>) =>
        /\ html[1].kind = "header"
        /\ Len(RowsOfKind({"header"})) = 1
        /\ Len(BodyRows) = Len(Records)
        /\ \A i \in 1..Len(BodyRows) :
              /\ BodyRows[i].rec = Records[i].id
              /\ BodyRows[i].cls = Parity(i)
              /\ Len(BodyRows[i].cells) = Len(columns)

\* scenario A: the columns name and age, three flat records
C1_Witness ==
    /\ Printed /\ ~StoreIsGrouped(grid.store)
    /\ Ids(columns) = <<2, 3>>
    /\ Len(Records) = 3
    /\ Len(html) = 4
    /\ [i \in 1..3 |-> BodyRows[i].cls] = <<"odd", "even", "odd">>

\* the rows a grouped document is to have: the header row, then per group a
\* group-header row and one body row per child, parity counted in the group
GroupedShape(recs) ==
    LET groups == GroupsOf(recs)
    IN <<[kind |-> "header", rec |-> 0, cls |-> ""]>>
       \o Concat([k \in 1..Len(groups) |->
             <<[kind |-> "group-header", rec |-> 0, cls |-> ""]>>
             \o [x \in 1..Len(groups[k].children) |->
                    [kind |-> "body", rec |-> groups[k].children[x].id,
                     cls |-> Parity(x)]]])

Shape(rows) ==
    [i \in 1..Len(rows) |->
        [kind |-> rows[i].kind, rec |-> rows[i].rec,
         cls |-> IF rows[i].kind = "body" THEN rows[i].cls ELSE ""]]

\* C2: grouped mode: with a grouped store and a grouping feature the
\* document has one header row and, per group in order, a group-header row
\* followed by one body row per child, the first child of every group odd.
C2_GroupedRows ==
    (Printed /\ StoreIsGrouped(grid.store) /\ HasFeature(getFeature(grid, "grouping"))) =>
        Shape(RowsOfKind({"header", "group-header", "body"})) = GroupedShape(Records)

\* what makes a column a hidden data column
HiddenDataColumn(c) ==
    /\ ~IsEmpty(c.dataIndex) /\ c.hidden
    /\ c.xtype \notin {"rownumberer", "templatecolumn"}

\* C3: the normalized column list is a subsequence of the grid's columns and
\* holds no hidden data column, grouped or not.
C3_NormalizedColumns ==
    Printed =>
        /\ IsSubSeq(columns, grid.columns)
        /\ \A i \in 1..Len(columns) : ~HiddenDataColumn(columns[i])

InColumns(c) == \E j \in 1..Len(columns) : columns[j].id = c.id
PlainColumns ==
    {grid.columns[i] : i \in {j \in 1..Len(grid.columns) :
        grid.columns[j].xtype \notin {"rownumberer", "templatecolumn"}}}

Shown(v) == IF v = Undefined THEN Nbsp ELSE ToText(v)

\* the final value of a body cell: the template's markup, the renderer's
\* return value, or the raw value
FinalValue(column, rcd) ==
    IF column.xtype = "templatecolumn"
    THEN (IF column.tpl THEN TplApply(rcd) ELSE Get(rcd, column.dataIndex))
    ELSE IF column.renderer # "none"
    THEN Renderer(column.renderer, Get(rcd, column.dataIndex))
    ELSE Get(rcd, column.dataIndex)

\* C5: a body cell whose final value is undefined or null shows the
\* placeholder '&nbsp;', never the text of the missing value.
C5_MissingValuePlaceholder ==
    Printed =>
        \A r \in 1..Len(BodyRows) : \A i \in 1..Len(BodyRows[r].cells) :
            FinalValue(columns[i], RecordOf(BodyRows[r])) \in {Undefined, Null}
                => BodyRows[r].cells[i].value = Nbsp

Ages(recs) == [i \in 1..Len(recs) |-> recs[i].age.n]

\* C7: getSummary, in both copies: 'count' is the record count and 'sum' the
\* arithmetic sum of the field (per group when group is set on a grouped
\* store), 'min', 'max' and 'average' the store's built-in; a function goes
\* to store.aggregate; an unknown type gives '' or, grouped, an empty
\* mapping; a falsy type gives undefined.
C7_GetSummary ==
    call.fn = "getSummary" =>
        LET store == call.args[1]
            type == call.args[2]
            field == call.args[3]
            group == call.args[4]
            perGroup == group /\ store.grouped
            groups == GroupsOf(store.records)
            keyed(f(_)) == Obj({<<groups[k].name.s, f(groups[k].children)>> :
                                  k \in 1..Len(groups)})
            count(recs) == Num(Len(recs))
            sum(recs) == Num(SumSeq(Ages(recs)))
        IN CASE type \in {Undefined, Null, Str("")} -> call.result = Undefined
             [] type.t = "function" ->
                    call.result = StoreAggregate(store, type, group, field)
             [] type = Str("count") ->
                    call.result = IF perGroup THEN keyed(count) ELSE count(store.records)
             [] type = Str("sum") ->
                    call.result = IF perGroup THEN keyed(sum) ELSE sum(store.records)
             [] type = Str("min") -> call.result = StoreMin(store, field, group)
             [] type = Str("max") -> call.result = StoreMax(store, field, group)
             [] type = Str("average") ->
                    call.result = StoreAverage(store, field, group)
             [] OTHER -> call.result = IF group THEN Obj({}) ELSE Str("")

\* the sum of the ages 1, 2 and 0 of three records, from the document
\* template's copy
C7_Witness ==
    /\ call.fn = "getSummary" /\ call.copy = "document"
    /\ call.args[2] = Str("sum") /\ ~call.args[4]
    /\ Ages(call.args[1].records) = <<1, 2, 0>>
    /\ call.result = Num(3)

SummaryRows == RowsOfKind({"summary"})

\* the aggregate a column's summary cell is computed from
Aggregate(column) ==
    IF getFeature(grid, "summary").remoteRoot # ""
    THEN Get(RemoteSummary[1], column.dataIndex)
    ELSE CASE column.summaryType = Str("sum") -> Num(SumSeq(Ages(Records)))
           [] column.summaryType = Str("count") -> Num(Len(Records))
           [] column.summaryType = Str("bogus") -> Str("")
           [] OTHER -> Undefined

\* C8 as claimed: without a summary renderer the trailing summary cell shows
\* the placeholder when the aggregate is undefined or zero, and the computed
\* value verbatim otherwise.
C8_Original ==
    Printed =>
        \A r \in 1..Len(SummaryRows) : \A i \in 1..Len(columns) :
            columns[i].summaryRenderer = "none" =>
                SummaryRows[r].cells[i].value =
                    IF Aggregate(columns[i]) \in {Undefined, Num(0)} THEN Nbsp
                    ELSE ToText(Aggregate(columns[i]))

\* C8 amended: without a summary renderer the trailing summary cell shows
\* the placeholder when the aggregate is undefined or equals zero under
\* JavaScript's == (the number 0, and the empty string an unknown
\* summaryType yields), and the computed value verbatim otherwise.
C8_SummaryCell ==
    Printed =>
        \A r \in 1..Len(SummaryRows) : \A i \in 1..Len(columns) :
            columns[i].summaryRenderer = "none" =>
                SummaryRows[r].cells[i].value =
                    IF Aggregate(columns[i]) \in {Undefined, Num(0), Str(""), Str("0")}
                    THEN Nbsp
                    ELSE ToText(Aggregate(columns[i]))

\* scenario C: the sum of the ages of three records in the age cell, the
\* placeholder in the cell of a column without summaryType
C8_Witness ==
    /\ Printed /\ ~StoreIsGrouped(grid.store) /\ Len(SummaryRows) = 1
    /\ Ids(columns) = <<2, 3>>
    /\ Ages(Records) = <<1, 2, 0>>
    /\ SummaryRows[1].cells[1].value = Nbsp
    /\ SummaryRows[1].cells[2].value = ToText(Num(3))

\* C9 as claimed: the trailing summary row is emitted only in flat mode and
\* only when a summary feature is configured.
C9_Original ==
    (Printed /\ SummaryRows # <<>>) =>
        /\ ~PrintIsGrouped(grid)
        /\ HasFeature(getFeature(grid, "summary"))

\* C9 amended: the trailing summary row, one row after all body rows with
\* one cell per normalized column, is emitted exactly when a summary feature
\* is configured, in flat and in grouped mode alike; never without one.
C9_SummaryRow ==
    Printed =>
        IF HasFeature(getFeature(grid, "summary"))
        THEN /\ Len(SummaryRows) = 1
             /\ html[Len(html)].kind = "summary"
             /\ Len(html[Len(html)].cells) = Len(columns)
        ELSE SummaryRows = <<>>

C9_Witness ==
    /\ Printed /\ ~PrintIsGrouped(grid) /\ HasFeature(getFeature(grid, "summary"))
    /\ Len(Records) = 2 /\ Len(columns) = 2
    /\ Len(html) = 4 /\ html[4].kind = "summary" /\ Len(html[4].cells) = 2

GroupSummaryRows == RowsOfKind({"group-summary"})

\* C10: in the trailing summary row and in the per-group summary row, the
\* cell of a column that has a summaryRenderer is produced and shows the
\* renderer's return value, whatever the aggregate.
C10_SummaryRenderer ==
    /\ Printed =>
        \A r \in 1..Len(SummaryRows) : \A i \in 1..Len(columns) :
            columns[i].summaryRenderer # "none" =>
                SummaryRows[r].cells[i].value =
                    Shown(Renderer(columns[i].summaryRenderer, Aggregate(columns[i])))
    /\ (/\ Printed /\ PrintIsGrouped(grid)
        /\ HasFeature(getFeature(grid, "groupingsummary"))
        /\ \E i \in 1..Len(columns) : columns[i].summaryRenderer # "none")
       => Len(GroupSummaryRows) = Len(GroupsOf(Records))
    /\ (call.fn = "renderSummary" /\ call.args[2].summaryRenderer # "none") =>
            /\ call.result.ok
            /\ call.result.cell.value # Nbsp

\* C11: getSummaryRcd on a sequence payload returns the first entry, in
\* payload order, whose group field equals the key, for every key that some
\* entry carries, and undefined when no entry carries the key.
C11_GetSummaryRcd ==
    call.fn = "getSummaryRcd" =>
        LET rawDataObject == call.args[1]
            fieldName == call.args[2]
            value == call.args[3]
            hits == {i \in 1..Len(rawDataObject) :
                        Get(rawDataObject[i], fieldName) = value}
        IN IF hits = {} THEN call.result = NoRecord
           ELSE call.result = rawDataObject[Min(hits)]

\* the positions of the log at which a thing happened
At(name, arg) == {i \in 1..Len(events) : events[i] = Event(name, arg)}
Named(names) == {i \in 1..Len(events) : events[i].name \in names}
\* window.open returned nothing, or a call on the window threw
HostFailed ==
    \E i \in 1..Len(events) :
        events[i].name \in {"window.open"} \cup WindowCalls /\ ~events[i].arg

\* C12: when the window cannot be opened or writing, printing or closing
\* throws, 'print' is fired with successful = false and no exception leaves
\* print from the failed call (an exception can only come out of a listener);
\* 'afterPrint' is fired only after 'print' true and never after 'print' false.
C12_HostFailureSignal ==
    Printed =>
        /\ HostFailed =>
              /\ At("print", FALSE) # {}
              /\ \A i \in Named({"throw"}) : events[i - 1].name \in EventNames
        /\ \A i \in Named({"afterPrint"}) :
              /\ \E j \in At("print", TRUE) : j < i
              /\ \A j \in At("print", FALSE) : j > i

\* writing the document throws: 'print' false, no 'afterPrint', print returns
C12_Witness ==
    /\ Printed
    /\ At("document.write", FALSE) # {}
    /\ At("print", FALSE) # {}
    /\ Named({"afterPrint"}) = {}
    /\ events[Len(events)].name = "return"

\* C13: 'beforePrint' is fired once in every print call, after the template
\* was applied and before any window is opened; when a listener returns
\* false no window is opened, nothing is written or printed, and neither
\* 'print' nor 'afterPrint' is fired.
C13_BeforePrintVeto ==
    Printed =>
        /\ Cardinality(Named({"beforePrint"})) = 1
        /\ \A b \in Named({"beforePrint"}) :
              /\ \E a \in Named({"apply"}) : a < b
              /\ \A w \in Named({"window.open"} \cup WindowCalls) : b < w
        /\ At("beforePrint", FALSE) # {} =>
              /\ Named({"window.open"} \cup WindowCalls) = {}
              /\ Named({"print", "afterPrint"}) = {}
              /\ win = NoWindow

\* a vetoed print call of a grid with records: rendered, nothing else done
C13_Witness ==
    /\ Printed /\ Len(html) > 1
    /\ events = <<Event("apply", TRUE), Event("beforePrint", FALSE),
                  Event("return", TRUE)>>

\* the non-grouped rule of normalization: a visible column with a dataIndex,
\* a row-numbering column or a template column
FlatRule(c) ==
    \/ (~IsEmpty(c.dataIndex) /\ ~c.hidden)
    \/ c.xtype \in {"rownumberer", "templatecolumn"}

\* C14: when the store is grouped but the grid has no grouping or
\* groupingsummary feature, print renders without an error on the flat path:
\* the columns are those the non-grouped rule keeps, in order, and every
\* record gets one body row, in record order, with no group-header row.
C14_NoGroupFeatureFlat ==
    (Printed /\ StoreIsGrouped(grid.store)
     /\ ~HasFeature(getFeature(grid, "grouping"))) =>
        /\ Ids(columns) = Ids(SelectSeq(grid.columns, FlatRule))
        /\ Named({"apply"}) # {}
        /\ RowsOfKind({"group-header", "group-summary"}) = <<>>
        /\ Len(BodyRows) = Len(Records)
        /\ \A i \in 1..Len(BodyRows) :
              /\ BodyRows[i].rec = Records[i].id
              /\ Len(BodyRows[i].cells) = Len(columns)

\* a grouped store of three records in a grid without features and with a
\* hidden column: the hidden column is dropped and three rows are printed
C14_Witness ==
    /\ Printed /\ StoreIsGrouped(grid.store) /\ grid.features = <<>>
    /\ Ids(grid.columns) = <<3, 5>> /\ Ids(columns) = <<3>>
    /\ Len(Records) = 3 /\ Len(BodyRows) = 3

\* C15: the <td> a formatter emits carries a class attribute whenever tdCls
\* or css is non-empty, holding tdCls alone, css alone, or 'tdCls css' when
\* both are set, and carries none when both are empty; in the formatter of
\* flat rendering and in the one of grouped rendering.
C15_CellClasses ==
    call.fn = "getHtml" =>
        LET tdCls == call.args[2].tdCls
            css == call.args[2].css
        IN call.result.class =
              IF tdCls # "" /\ css # "" THEN tdCls \o " " \o css
              ELSE IF tdCls # "" THEN tdCls
              ELSE css

DetailRows == RowsOfKind({"detail"})
Kinds(rows) == [i \in 1..Len(rows) |-> rows[i].kind]

\* C16: with a row-expander template configured every body row is followed
\* at once by exactly one detail row, rendered from the same record and
\* spanning the normalized columns; without one no detail row is emitted.
C16_DetailRows ==
    Printed =>
        IF grid.rowexpander
        THEN /\ Len(DetailRows) = Len(BodyRows)
             /\ \A i \in 1..Len(html) :
                   html[i].kind = "body" =>
                       /\ i < Len(html)
                       /\ html[i + 1].kind = "detail"
                       /\ html[i + 1].rec = html[i].rec
                       /\ html[i + 1].colspan = Len(columns)
                       /\ html[i + 1].cells = <<Cell("", "", "", "", "", "",
                                                   TplApply(RecordOf(html[i])))>>
        ELSE DetailRows = <<>>

\* two flat records and two columns with a row expander
C16_Witness ==
    /\ Printed /\ grid.rowexpander /\ Len(columns) = 2 /\ Len(Records) = 2
    /\ Kinds(html) = <<"header", "body", "detail", "body", "detail">>
    /\ html[3].colspan = 2 /\ html[5].rec = Records[2].id

\* how often a record occurs in a sequence
Count(recs, r) == Cardinality({i \in 1..Len(recs) : recs[i] = r})
\* the keys of the records in the order they first occur
RECURSIVE KeyOrder(_)
KeyOrder(recs) ==
    IF recs = <<>> THEN <<>>
    ELSE <<Head(recs).dept>>
         \o KeyOrder(SelectSeq(Tail(recs), LAMBDA r : r.dept # Head(recs).dept))
\* the records of every group are adjacent
Contiguous(recs) ==
    \A i, j, k \in 1..Len(recs) :
        (i < j /\ j < k /\ recs[i].dept = recs[k].dept) => recs[j].dept = recs[i].dept

C18_PrintLeavesGrid == [][print => grid' = grid]_vars

\* C19: in every print call whose beforePrint was not vetoed 'print' is
\* fired exactly once, with successful = true exactly when the window was
\* opened and writing, printing and closing completed, whatever the
\* listeners do.
C19_ExactlyOnePrint ==
    (Printed /\ At("beforePrint", TRUE) # {}) =>
        /\ Cardinality(Named({"print"})) = 1
        /\ At("print", TRUE) # {} <=> ~HostFailed

\* C20: in the trailing summary row the cell of every column without a
\* summaryRenderer has the inline style text-align of that column's align.
C20_SummaryAlign ==
    Printed =>
        \A r \in 1..Len(SummaryRows) : \A i \in 1..Len(columns) :
            columns[i].summaryRenderer = "none" =>
                SummaryRows[r].cells[i].align = columns[i].align

\* the records of the page the store displays: pageSize records from the
\* 0-based index (currentPage - 1) * pageSize on, as far as the data set goes
CurrentPage(store) ==
    LET first == (store.currentPage - 1) * store.pageSize
    IN SelectSeq(store.records,
                 LAMBDA r : \E i \in 1..Len(store.records) :
                     /\ store.records[i] = r
                     /\ first <= i - 1 /\ i - 1 <= first + store.pageSize - 1)

\* C21: on a buffered store print renders exactly the records of the page
\* displayed, those at the 0-based indices (c-1)*p to (c-1)*p + p - 1, one
\* body row each; nothing is rendered and no event is fired before the store
\* delivers the range.
C21_BufferedPage ==
    grid.store.buffered =>
        /\ pc = "waiting" =>
              html = <<>> /\ events = <<>> /\ win = NoWindow /\ ~range.delivered
        /\ Printed =>
              /\ range.delivered
              /\ range.records = CurrentPage(grid.store)
              /\ [i \in 1..Len(BodyRows) |-> BodyRows[i].rec]
                    = [i \in 1..Len(CurrentPage(grid.store)) |->
                          CurrentPage(grid.store)[i].id]

====
